---------------------------- MODULE Spec2Model ----------------------------
(***************************************************************************)
(* A model of mpop/composites/__init__.py: the composite descriptor, the    *)
(* sun-zenith normalizer with its class-level cache, the RGB compositor and  *)
(* its recipe variants (SunCorrectedRGB, Airmass, Convection, Dust).        *)
(*                                                                         *)
(* A band grid is represented by one pixel: every array operation of the    *)
(* module (subtraction, division, stacking, masking) is element-wise, so    *)
(* one pixel carries the whole behaviour.  Real numbers are fixed-point:    *)
(* cosines are in thousandths (1.0 is CosMax = 1000, 0.035 is CosMin = 35). *)
(***************************************************************************)
EXTENDS Integers, Sequences, FiniteSets, TLC

VARIABLES
    projectables,   \* the caller's list of bands, as it is now
    before,         \* history: the caller's list and the cache when the call started
    res,            \* outcome of the last call
    phase,          \* "build": the caller prepares a list; "done": a call returned
    coszen,         \* SunZenithNormalize.coszen, the class-level cache
    ncompute,       \* history: how often cos_zen ran, per key
    thr             \* concurrent normalizer calls: each thread's position and locals

vars == <<projectables, before, res, phase, coszen, ncompute, thr>>

---------------------------------------------------------------------------
(* Metadata values.  Python values of different types (str, set, None, an   *)
(* area object) are tagged records with the same fields.                    *)

StrVal(s) == [kind |-> "str", s |-> s, set |-> {}]
SetVal(S) == [kind |-> "set", s |-> "", set |-> S]
NoneVal == [kind |-> "none", s |-> "", set |-> {}]
AreaVal(name) == [kind |-> "area", s |-> name, set |-> {}]
ListVal(s) == [kind |-> "list", s |-> s, set |-> {}]

\* Python truthiness: "", set() and None are false
Truthy(v) ==
    CASE v.kind = "str" -> v.s # ""
      [] v.kind = "set" -> v.set # {}
      [] v.kind = "none" -> FALSE
      [] OTHER -> TRUE

\* dict operations on a metadata mapping (a function on a set of keys)
EmptyInfo == [k \in {} |-> NoneVal]

DictGet(info, k) == IF k \in DOMAIN info THEN info[k] ELSE NoneVal

DictUpdate(a, b) ==
    [k \in (DOMAIN a) \cup (DOMAIN b) |-> IF k \in DOMAIN b THEN b[k] ELSE a[k]]

DictPop(info, k) == [x \in (DOMAIN info) \ {k} |-> info[x]]

DictSet(info, k, v) == [x \in (DOMAIN info) \cup {k} |-> IF x = k THEN v ELSE info[x]]

DictSetDefault(info, k, v) == IF k \in DOMAIN info THEN info ELSE DictSet(info, k, v)

---------------------------------------------------------------------------
(* Pixels of a masked array, and the arithmetic of Projectable.             *)

Px(v) == [m |-> FALSE, v |-> v]
Masked == [m |-> TRUE, v |-> 0]

PxSub(a, b) == IF a.m \/ b.m THEN Masked ELSE Px(a.v - b.v)

CosMin == 35
CosMax == 1000

\* a / c with c in thousandths
PxDiv(a, c) == IF a.m \/ c.m THEN Masked ELSE Px((a.v * CosMax) \div c.v)

Projectable(data, info) == [data |-> data, info |-> info]

\* projectable - other: a new band; the metadata of the left operand is kept
ProjSub(a, b) == Projectable(PxSub(a.data, b.data), a.info)

\* projectable / grid: a new band with the same metadata
ProjDiv(a, grid) == Projectable(PxDiv(a.data, grid), a.info)

---------------------------------------------------------------------------
(* CompositeBase.__init__                                                   *)

RECURSIVE ApplyDefaults(_, _)
ApplyDefaults(info, config) ==
    IF DOMAIN config = {} THEN info
    ELSE LET k == CHOOSE x \in DOMAIN config : TRUE
         IN ApplyDefaults(DictSetDefault(info, k, config[k]), DictPop(config, k))

CompositeBaseInit(name, compositor, prerequisites, default_image_config, kwargs) ==
    LET required == DictSet(DictSet(DictSet(kwargs, "name", StrVal(name)),
                                    "compositor", StrVal(compositor)),
                            "prerequisites", ListVal(prerequisites))
    IN ApplyDefaults(required, default_image_config)

---------------------------------------------------------------------------
(* SunZenithNormalize                                                       *)

Times == {"t1", "t2"}
AreaNames == {"a1", "a2"}
Keys == [t : Times, a : AreaNames]

\* pyorbital's cos_zen at the area's grid point, in thousandths: deterministic
CosZen(key) ==
    CASE key.t = "t1" /\ key.a = "a1" -> 500
      [] key.t = "t1" /\ key.a = "a2" -> 20
      [] key.t = "t2" /\ key.a = "a1" -> 1000
      [] OTHER -> 35

\* np.ma.masked_outside(x, lo, hi): the bounds themselves are kept
MaskedOutside(x, lo, hi) == IF x < lo \/ x > hi THEN Masked ELSE Px(x)

CosGrid(key) == MaskedOutside(CosZen(key), CosMin, CosMax)

\* variant: each instance starts with a dict of its own
InstanceCacheOwn(classCache) == [k \in {} |-> Masked]

\* the cache a SunZenithNormalize instance sees: the class attribute, shared
InstanceCache(classCache) == classCache

\* projectable.info["start_time"], projectable.info["area"].name
HasKey(p) == "start_time" \in DOMAIN p.info /\ "area" \in DOMAIN p.info
KeyOf(p) == [t |-> p.info["start_time"].s, a |-> p.info["area"].s]

\* variant: the store cleans the cache up, keeping the new entry only
CacheStoreEvict(cache, key, grid) == [k \in {key} |-> grid]

\* self.coszen[key] = grid: the other entries stay
CacheStore(cache, key, grid) ==
    [k \in (DOMAIN cache) \cup {key} |-> IF k = key THEN grid ELSE cache[k]]

\* SunZenithNormalize.__call__, run without interruption:
\* [err, value, cache, n] from the cache and the computation counts
SunZenithNormalizeCall(cache, n, p) ==
    IF ~HasKey(p)
    THEN [err |-> "KeyError", value |-> p, cache |-> cache, n |-> n]
    ELSE LET key == KeyOf(p)
             miss == key \notin DOMAIN cache
             cache2 == IF miss THEN CacheStore(cache, key, CosGrid(key)) ELSE cache
             n2 == IF miss THEN [n EXCEPT ![key] = @ + 1] ELSE n
         IN [err |-> "", value |-> ProjDiv(p, cache2[key]), cache |-> cache2, n |-> n2]

---------------------------------------------------------------------------
(* RGBCompositor.__call__                                                   *)

NBandsRGB == 3

\* variant: only too few bands are refused
CountAtLeast(ps) == Len(ps) >= NBandsRGB

\* len(projectables) != 3 raises ValueError
CountOk(ps) == Len(ps) = NBandsRGB

\* np.rollaxis(np.ma.dstack(projectables), axis=2): band axis first, input order
StackBands(ps) == [i \in 1..Len(ps) |-> ps[i].data]

\* variant: the bands are overlaid in the reverse order
MergeInfoReversed(self, ps) ==
    DictUpdate(DictUpdate(DictUpdate(ps[3].info, ps[2].info), ps[1].info), self)

\* info = projectables[0].info.copy(), then update() with band 1, band 2, self.info
MergeInfo(self, ps) ==
    DictUpdate(DictUpdate(DictUpdate(ps[1].info, ps[2].info), ps[3].info), self)

\* variant: units is left in
PopWavelengthOnly(info) == DictPop(info, "wavelength_range")

\* info.pop("wavelength_range", None); info.pop("units", None)
PopAmbiguous(info) == DictPop(DictPop(info, "wavelength_range"), "units")

\* the sensor of one band as the loop adds it to the set
RECURSIVE CollectSensor(_, _)
CollectSensor(ps, i) ==
    IF i > Len(ps) THEN {}
    ELSE LET current_sensor == DictGet(ps[i].info, "sensor")
             here == IF ~Truthy(current_sensor) THEN {}
                     ELSE IF current_sensor.kind = "str" THEN {current_sensor.s}
                     ELSE current_sensor.set
         IN here \cup CollectSensor(ps, i + 1)

\* variant: a single sensor stays a set
CollapseSensorKeepSet(sensor) ==
    IF Cardinality(sensor) = 0 THEN NoneVal ELSE SetVal(sensor)

\* None when empty, the single element when one, else the set
CollapseSensor(sensor) ==
    IF Cardinality(sensor) = 0 THEN NoneVal
    ELSE IF Cardinality(sensor) = 1 THEN StrVal(CHOOSE x \in sensor : TRUE)
    ELSE SetVal(sensor)

\* info["sensor"] = sensor; info["mode"] = "RGB"
ForceFields(info, sensor) == DictSet(DictSet(info, "sensor", sensor), "mode", StrVal("RGB"))

Raised(status, expected, got) ==
    [status |-> status, expected |-> expected, got |-> got,
     data |-> <<>>, info |-> EmptyInfo]

Returned(p) ==
    [status |-> "ok", expected |-> 0, got |-> 0, data |-> p.data, info |-> p.info]

RGBCompositorCall(self, ps) ==
    IF ~CountOk(ps) THEN Raised("ValueError", NBandsRGB, Len(ps))
    ELSE LET the_data == StackBands(ps)
             info == PopAmbiguous(MergeInfo(self, ps))
             sensor == CollapseSensor(CollectSensor(ps, 1))
         IN Returned(Projectable(the_data, ForceFields(info, sensor)))

---------------------------------------------------------------------------
(* SunCorrectedRGB.__call__                                                 *)

\* variant: every band that is not in kelvin is corrected
NeedsSunCorrectionNotK(p) == DictGet(p.info, "units") # StrVal("K")

NeedsSunCorrection(p) == DictGet(p.info, "units") = StrVal("%")

\* the loop over enumerate(projectables); st = [list, cache, n, err]
RECURSIVE SunCorrectLoop(_, _)
SunCorrectLoop(st, i) ==
    IF st.err # "" \/ i > Len(st.list) THEN st
    ELSE IF ~NeedsSunCorrection(st.list[i]) THEN SunCorrectLoop(st, i + 1)
    ELSE LET r == SunZenithNormalizeCall(st.cache, st.n, st.list[i])
         IN IF r.err # "" THEN [st EXCEPT !.err = r.err]
            ELSE SunCorrectLoop([list |-> [st.list EXCEPT ![i] = r.value],
                                 cache |-> r.cache, n |-> r.n, err |-> ""], i + 1)

---------------------------------------------------------------------------
(* Airmass, Convection, Dust: each channel is band[l] - band[r], or band[l] *)
(* alone when r = -1; indices are 0-based as in the source.                 *)

Term(l, r) == [l |-> l, r |-> r]

\* variants: Dust with its first difference swapped, Convection with 1-based indices
DustTermsSwapped == <<Term(1, 2), Term(1, 0), Term(1, -1)>>
ConvectionTermsOneBased == <<Term(4, 5), Term(3, 6), Term(2, 1)>>

AirmassTerms == <<Term(0, 1), Term(2, 3), Term(0, -1)>>
ConvectionTerms == <<Term(3, 4), Term(2, 5), Term(1, 0)>>
DustTerms == <<Term(2, 1), Term(1, 0), Term(1, -1)>>

\* projectables[i] raises IndexError when i is not below the length
InRange(ps, i) == i < Len(ps)

TermInRange(ps, t) == InRange(ps, t.l) /\ (t.r >= 0 => InRange(ps, t.r))

Channel(ps, t) ==
    IF t.r < 0 THEN ps[t.l + 1] ELSE ProjSub(ps[t.l + 1], ps[t.r + 1])

RecipeCall(self, terms, ps) ==
    IF \E k \in 1..Len(terms) : ~TermInRange(ps, terms[k])
    THEN Raised("IndexError", 0, Len(ps))
    ELSE RGBCompositorCall(self, [k \in 1..Len(terms) |-> Channel(ps, terms[k])])

---------------------------------------------------------------------------
(* The state machine: a caller loads bands into a list, calls a compositor  *)
(* (or the normalizer) on it, looks at the outcome and starts over.         *)

NoRes == [op |-> "", self |-> EmptyInfo, status |-> "none", expected |-> 0, got |-> 0,
          data |-> <<>>, info |-> EmptyInfo]

Outcome(op, self, out) ==
    [op |-> op, self |-> self, status |-> out.status, expected |-> out.expected,
     got |-> out.got, data |-> out.data, info |-> out.info]

EmptyCache == [k \in {} |-> Masked]
NoBefore == [list |-> <<>>, cache |-> EmptyCache]

Init ==
    /\ projectables = <<>>
    /\ before = NoBefore
    /\ res = NoRes
    /\ phase = "build"
    /\ coszen = EmptyCache
    /\ ncompute = [k \in Keys |-> 0]
    /\ thr = <<>>

Load(U, max) ==
    /\ phase = "build"
    /\ Len(projectables) < max
    /\ \E b \in U : projectables' = Append(projectables, b)
    /\ UNCHANGED <<before, res, phase, coszen, ncompute, thr>>

Finish(op, self, out) ==
    /\ res' = Outcome(op, self, out)
    /\ before' = [list |-> projectables, cache |-> coszen]
    /\ phase' = "done"

CallRGB(D) ==
    /\ phase = "build"
    /\ \E self \in D : Finish("RGBCompositor", self, RGBCompositorCall(self, projectables))
    /\ UNCHANGED <<projectables, coszen, ncompute, thr>>

CallRecipe(D, op, terms) ==
    /\ phase = "build"
    /\ \E self \in D : Finish(op, self, RecipeCall(self, terms, projectables))
    /\ UNCHANGED <<projectables, coszen, ncompute, thr>>

CallSunCorrected(D) ==
    /\ phase = "build"
    /\ \E self \in D :
        LET st == SunCorrectLoop([list |-> projectables, cache |-> InstanceCache(coszen),
                                  n |-> ncompute, err |-> ""], 1)
            out == IF st.err # "" THEN Raised(st.err, 0, 0)
                   ELSE RGBCompositorCall(self, st.list)
        IN /\ Finish("SunCorrectedRGB", self, out)
           /\ projectables' = st.list
           /\ coszen' = st.cache
           /\ ncompute' = st.n
    /\ UNCHANGED thr

\* SunZenithNormalize()(band) on the one band the caller holds
CallNormalize ==
    /\ phase = "build"
    /\ Len(projectables) = 1
    /\ LET r == SunZenithNormalizeCall(InstanceCache(coszen), ncompute, projectables[1])
           out == IF r.err # "" THEN Raised(r.err, 0, 0)
                  ELSE Returned(Projectable(<<r.value.data>>, r.value.info))
       IN /\ Finish("SunZenithNormalize", EmptyInfo, out)
          /\ coszen' = r.cache
          /\ ncompute' = r.n
    /\ UNCHANGED <<projectables, thr>>

Return ==
    /\ phase = "done"
    /\ phase' = "build"
    /\ projectables' = <<>>
    /\ before' = NoBefore
    /\ res' = NoRes
    /\ UNCHANGED <<coszen, ncompute, thr>>

---------------------------------------------------------------------------
(* Spec: every compositor on lists of up to MaxBands bands.                 *)

MaxBands == 7

InfoVis ==
    [k \in {"units", "start_time", "area", "wavelength_range", "sensor"} |->
        CASE k = "units" -> StrVal("%")
          [] k = "start_time" -> StrVal("t1")
          [] k = "area" -> AreaVal("a1")
          [] k = "wavelength_range" -> StrVal("0.6")
          [] OTHER -> StrVal("A")]

InfoIR ==
    [k \in {"units", "mode", "sensor"} |->
        CASE k = "units" -> StrVal("K")
          [] k = "mode" -> StrVal("L")
          [] OTHER -> SetVal({"A", "B"})]

Bands == {Projectable(Px(10), InfoVis), Projectable(Px(40), InfoIR),
          Projectable(Masked, EmptyInfo)}

KwMode == [k \in {"mode", "units", "wavelength_range"} |->
              CASE k = "mode" -> StrVal("P")
                [] k = "units" -> StrVal("1")
                [] OTHER -> StrVal("10.8")]

Descriptors ==
    {CompositeBaseInit("overview", "rgb", "0.6,0.8,10.8", EmptyInfo, EmptyInfo),
     CompositeBaseInit("airmass", "airmass", "6.2,7.3,9.7,10.8", EmptyInfo, KwMode),
     CompositeBaseInit("dust", "dust", "8.7,10.8,12.0", KwMode, EmptyInfo)}

LoadBand == Load(Bands, MaxBands)
RGB == CallRGB(Descriptors)
SunCorrectedRGB == CallSunCorrected(Descriptors)
Airmass == CallRecipe(Descriptors, "Airmass", AirmassTerms)
Convection == CallRecipe(Descriptors, "Convection", ConvectionTerms)
Dust == CallRecipe(Descriptors, "Dust", DustTerms)

Next == LoadBand \/ RGB \/ SunCorrectedRGB \/ Airmass \/ Convection \/ Dust \/ Return

Spec == Init /\ [][Next]_vars

---------------------------------------------------------------------------
(* SpecMerge: RGBCompositor on bands whose metadata collide.                *)

Platforms == {"p1", "p2"}
AmbiguousKeys == {"mode", "units", "wavelength_range"}

\* a band's metadata: optional platform, optional name, at most one of the
\* keys the compositor treats specially
BandInfo(platform, name, special) ==
    [k \in (IF platform = "" THEN {} ELSE {"platform"})
           \cup (IF name = "" THEN {} ELSE {"name"})
           \cup (IF special = "" THEN {} ELSE {special}) |->
        CASE k = "platform" -> StrVal(platform)
          [] k = "name" -> StrVal(name)
          [] OTHER -> StrVal("x")]

MergeBands ==
    {Projectable(Px(10), BandInfo(pl, nm, sp)) :
        pl \in Platforms \cup {""}, nm \in {"", "ch1"}, sp \in AmbiguousKeys \cup {""}}

KwPlatform == [k \in {"platform"} |-> StrVal("p0")]

MergeDescriptors ==
    {CompositeBaseInit("overview", "rgb", "0.6,0.8,10.8", dflt, kw) :
        dflt \in {EmptyInfo, KwMode}, kw \in {EmptyInfo, KwPlatform}}

LoadMerge == Load(MergeBands, NBandsRGB)
RGBMerge == CallRGB(MergeDescriptors)

NextMerge == LoadMerge \/ RGBMerge \/ Return

SpecMerge == Init /\ [][NextMerge]_vars

---------------------------------------------------------------------------
(* SpecSensor: RGBCompositor on bands with every kind of sensor field.      *)

SensorNames == {"A", "B"}

SensorInfos ==
    {EmptyInfo}
    \cup {[k \in {"sensor"} |-> StrVal(s)] : s \in SensorNames \cup {""}}
    \cup {[k \in {"sensor"} |-> SetVal(S)] : S \in SUBSET SensorNames}

SensorBands == {Projectable(Px(10), i) : i \in SensorInfos}

KwSensor == [k \in {"sensor"} |-> StrVal("X")]

SensorDescriptors ==
    {CompositeBaseInit("overview", "rgb", "0.6,0.8,10.8", EmptyInfo, kw) :
        kw \in {EmptyInfo, KwSensor}}

LoadSensor == Load(SensorBands, NBandsRGB)
RGBSensor == CallRGB(SensorDescriptors)

NextSensor == LoadSensor \/ RGBSensor \/ Return

SpecSensor == Init /\ [][NextSensor]_vars

---------------------------------------------------------------------------
(* SpecSun: SunCorrectedRGB and direct normalizer calls, one after another, *)
(* on bands with and without "%" units, start_time and area.                *)

SunInfo(units, t, a) ==
    [k \in (IF units = "" THEN {} ELSE {"units"})
           \cup (IF t = "" THEN {} ELSE {"start_time"})
           \cup (IF a = "" THEN {} ELSE {"area"}) |->
        CASE k = "units" -> StrVal(units)
          [] k = "start_time" -> StrVal(t)
          [] OTHER -> AreaVal(a)]

SunGeo == {<<"t1", "a1">>, <<"t1", "a2">>, <<"t2", "a1">>, <<"", "a1">>}

SunBands ==
    {Projectable(Px(d), SunInfo(u, g[1], g[2])) :
        d \in {70, 140}, u \in {"%", "K", ""}, g \in SunGeo}
    \cup {Projectable(Px(70), SunInfo("%", "t1", ""))}

SunDescriptors == {CompositeBaseInit("overview_sun", "sunrgb", "0.6,0.8,10.8", EmptyInfo, EmptyInfo)}

LoadSun == Load(SunBands, NBandsRGB)
SunRGB == CallSunCorrected(SunDescriptors)

NextSun == LoadSun \/ SunRGB \/ CallNormalize \/ Return

SpecSun == Init /\ [][NextSun]_vars

---------------------------------------------------------------------------
(* SpecRace: NThreads threads call the normalizer concurrently.  The test   *)
(* `key not in self.coszen`, cos_zen, the store and the final lookup are    *)
(* separate steps of a thread; nothing locks the cache.                     *)

NThreads == 2
Threads == 1..NThreads

RaceBands ==
    {Projectable(Px(70), SunInfo("%", "t1", "a1")),
     Projectable(Px(140), SunInfo("%", "t1", "a1")),
     Projectable(Px(70), SunInfo("%", "t1", "a2"))}

Idle ==
    [pc |-> "idle", band |-> Projectable(Masked, EmptyInfo),
     grid |-> Masked, err |-> "", value |-> Projectable(Masked, EmptyInfo)]

InitRace ==
    /\ projectables = <<>>
    /\ before = NoBefore
    /\ res = NoRes
    /\ phase = "build"
    /\ coszen = EmptyCache
    /\ ncompute = [k \in Keys |-> 0]
    /\ thr = [t \in Threads |-> Idle]

\* a thread enters __call__ with its band and builds the key
Enter(t) ==
    /\ thr[t].pc = "idle"
    /\ \E p \in RaceBands : thr' = [thr EXCEPT ![t].pc = "check", ![t].band = p]
    /\ UNCHANGED <<projectables, before, res, phase, coszen, ncompute>>

\* if key not in self.coszen
Check(t) ==
    /\ thr[t].pc = "check"
    /\ thr' = [thr EXCEPT ![t].pc =
                  IF KeyOf(thr[t].band) \notin DOMAIN coszen THEN "compute" ELSE "lookup"]
    /\ UNCHANGED <<projectables, before, res, phase, coszen, ncompute>>

\* np.ma.masked_outside(cos_zen(...), 0.035, 1)
Compute(t) ==
    /\ thr[t].pc = "compute"
    /\ thr' = [thr EXCEPT ![t].pc = "store", ![t].grid = CosGrid(KeyOf(thr[t].band))]
    /\ ncompute' = [ncompute EXCEPT ![KeyOf(thr[t].band)] = @ + 1]
    /\ UNCHANGED <<projectables, before, res, phase, coszen>>

\* self.coszen[key] = ...
Store(t) ==
    /\ thr[t].pc = "store"
    /\ coszen' = CacheStore(coszen, KeyOf(thr[t].band), thr[t].grid)
    /\ thr' = [thr EXCEPT ![t].pc = "lookup"]
    /\ UNCHANGED <<projectables, before, res, phase, ncompute>>

\* return projectable / self.coszen[key]
Lookup(t) ==
    /\ thr[t].pc = "lookup"
    /\ thr' = IF KeyOf(thr[t].band) \in DOMAIN coszen
              THEN [thr EXCEPT ![t].pc = "done",
                               ![t].value = ProjDiv(thr[t].band, coszen[KeyOf(thr[t].band)])]
              ELSE [thr EXCEPT ![t].pc = "done", ![t].err = "KeyError"]
    /\ UNCHANGED <<projectables, before, res, phase, coszen, ncompute>>

NextRace == \E t \in Threads : Enter(t) \/ Check(t) \/ Compute(t) \/ Store(t) \/ Lookup(t)

SpecRace == InitRace /\ [][NextRace]_vars

---------------------------------------------------------------------------
(* Properties.                                                              *)

Recipes == {"Airmass", "Convection", "Dust"}
Compositors == Recipes \cup {"RGBCompositor", "SunCorrectedRGB"}

Arity(op) == CASE op = "Airmass" -> 4 [] op = "Convection" -> 6 [] OTHER -> 3

Diff(a, b) == IF a.m \/ b.m THEN Masked ELSE Px(a.v - b.v)

\* the channels each recipe is to produce from the bands in the caller's order
ExpectedChannels(op, l) ==
    CASE op = "Airmass" ->
            <<Diff(l[1].data, l[2].data), Diff(l[3].data, l[4].data), l[1].data>>
      [] op = "Convection" ->
            <<Diff(l[4].data, l[5].data), Diff(l[3].data, l[6].data),
              Diff(l[2].data, l[1].data)>>
      [] OTHER ->
            <<Diff(l[3].data, l[2].data), Diff(l[2].data, l[1].data), l[2].data>>

\* C1: RGBCompositor succeeds if and only if it is given exactly 3 bands; any
\* other count raises the invalid-count error, which reports 3 and the actual
\* count, and no result is returned.
C1_ThreeBandsOrValueError ==
    res.op = "RGBCompositor" =>
        /\ (res.status = "ok") <=> (Len(before.list) = 3)
        /\ Len(before.list) # 3 =>
              /\ res.status = "ValueError"
              /\ res.expected = 3
              /\ res.got = Len(before.list)
              /\ res.data = <<>>
              /\ res.info = EmptyInfo
        /\ Len(before.list) = 3 => Len(res.data) = 3 /\ res.info # EmptyInfo

C1_FourBandsRefused ==
    /\ res.op = "RGBCompositor"
    /\ Len(before.list) = 4
    /\ res.status = "ValueError"
    /\ res.got = 4

\* C5: a recipe that returns has exactly three channels, in the order R, G, B,
\* each the exact element-wise difference its formula names (Airmass A-B, C-D,
\* A; Convection b3-b4, b2-b5, b1-b0; Dust C-B, B-A, B), unclamped and unscaled.
C5_RecipeChannels ==
    (res.op \in Recipes /\ res.status = "ok") =>
        /\ Len(res.data) = 3
        /\ res.data = ExpectedChannels(res.op, before.list)

C5_ConvectionNegativeChannel ==
    /\ res.op = "Convection"
    /\ res.status = "ok"
    /\ Len(before.list) = 6
    /\ res.data = <<Px(30), Px(-30), Px(30)>>

\* C7: every composite returned by RGBCompositor or a recipe variant has mode
\* "RGB" and neither wavelength_range nor units, whatever the bands and the
\* composite descriptor carry.
C7_ModeRGBNoUnits ==
    (res.op \in Compositors /\ res.status = "ok") =>
        /\ "mode" \in DOMAIN res.info
        /\ res.info["mode"] = StrVal("RGB")
        /\ "units" \notin DOMAIN res.info
        /\ "wavelength_range" \notin DOMAIN res.info

C7_DescriptorAndBandSetThem ==
    /\ res.op = "SunCorrectedRGB"
    /\ res.status = "ok"
    /\ DictGet(res.self, "mode") = StrVal("P")
    /\ "units" \in DOMAIN res.self
    /\ "wavelength_range" \in DOMAIN res.self
    /\ \E i \in 1..3 : "wavelength_range" \in DOMAIN before.list[i].info
    /\ \E i \in 1..3 : DictGet(before.list[i].info, "mode") = StrVal("L")

\* C8 as stated: a recipe called with a band count other than its arity, fewer
\* or more, fails and returns no composite.
C8_AnyWrongCountFails ==
    (res.op \in Recipes /\ Len(before.list) # Arity(res.op)) =>
        res.status # "ok" /\ res.data = <<>>

\* C8 amended: with fewer bands than its arity a recipe fails at once with an
\* index error, returns no composite and changes nothing; with more bands than
\* its arity it returns the composite of the first bands, ignoring the rest.
C8_FewerFailsMoreIgnored ==
    res.op \in Recipes =>
        /\ Len(before.list) < Arity(res.op) =>
              /\ res.status = "IndexError"
              /\ res.data = <<>>
              /\ res.info = EmptyInfo
              /\ projectables = before.list
              /\ coszen = before.cache
        /\ Len(before.list) > Arity(res.op) =>
              /\ res.status = "ok"
              /\ res.data = ExpectedChannels(res.op, SubSeq(before.list, 1, Arity(res.op)))

C8_SevenBandConvection ==
    /\ res.op = "Convection"
    /\ Len(before.list) = 7
    /\ res.status = "ok"

\* the bands of l that carry key k, and the value left-to-right overwrite gives
Carriers(l, k) == {i \in 1..Len(l) : k \in DOMAIN l[i].info}

LastCarrier(l, k) == CHOOSE i \in Carriers(l, k) : \A j \in Carriers(l, k) : j <= i

MergedLeftToRight(k) ==
    /\ k \in DOMAIN res.self => k \in DOMAIN res.info /\ res.info[k] = res.self[k]
    /\ (k \notin DOMAIN res.self /\ Cardinality(Carriers(before.list, k)) >= 2) =>
          /\ k \in DOMAIN res.info
          /\ res.info[k] = before.list[LastCarrier(before.list, k)].info[k]

MetaKeys ==
    {"platform", "name", "compositor", "prerequisites",
     "mode", "units", "wavelength_range", "sensor"}

RecomputedKeys == {"mode", "units", "wavelength_range", "sensor"}

\* C2 as stated: for every metadata key, the composite descriptor's value wins,
\* and otherwise the value of the highest-indexed band carrying the key.
C2_EveryKeyLeftToRight ==
    (res.op = "RGBCompositor" /\ res.status = "ok") =>
        \A k \in MetaKeys : MergedLeftToRight(k)

\* C2 amended: for every metadata key other than wavelength_range, units,
\* sensor and mode, the composite descriptor's value wins, and otherwise the
\* value of the highest-indexed band carrying the key.
C2_OtherKeysLeftToRight ==
    (res.op = "RGBCompositor" /\ res.status = "ok") =>
        \A k \in MetaKeys \ RecomputedKeys : MergedLeftToRight(k)

C2_CollidingPlatformAndName ==
    /\ res.op = "RGBCompositor"
    /\ res.status = "ok"
    /\ DictGet(before.list[1].info, "platform") = StrVal("p1")
    /\ DictGet(before.list[2].info, "platform") = StrVal("p2")
    /\ DictGet(before.list[3].info, "platform") = StrVal("p1")
    /\ DictGet(before.list[3].info, "name") = StrVal("ch1")
    /\ "platform" \notin DOMAIN res.self
    /\ res.info["platform"] = StrVal("p1")
    /\ res.info["name"] = StrVal("overview")

\* the sensors one band contributes: its string, its set, or nothing
SensorsOf(p) ==
    LET s == DictGet(p.info, "sensor")
    IN IF s.kind = "str" /\ s.s # "" THEN {s.s}
       ELSE IF s.kind = "set" THEN s.set
       ELSE {}

SensorUnion(l) == UNION {SensorsOf(l[i]) : i \in 1..Len(l)}

\* C3: the output sensor depends on the bands' sensor fields only: None when
\* their union is empty, the one string when it has one element, the unioned
\* set when it has two or more.
C3_SensorCollapsed ==
    (res.op = "RGBCompositor" /\ res.status = "ok") =>
        LET U == SensorUnion(before.list)
        IN /\ "sensor" \in DOMAIN res.info
           /\ U = {} => res.info["sensor"] = NoneVal
           /\ \A x \in U : U = {x} => res.info["sensor"] = StrVal(x)
           /\ Cardinality(U) >= 2 => res.info["sensor"] = SetVal(U)

C3_SetASetAEmpty ==
    /\ res.op = "RGBCompositor"
    /\ res.status = "ok"
    /\ DictGet(before.list[1].info, "sensor") = SetVal({"A"})
    /\ DictGet(before.list[2].info, "sensor") = SetVal({"A"})
    /\ DictGet(before.list[3].info, "sensor") = SetVal({})
    /\ DictGet(res.self, "sensor") = StrVal("X")
    /\ res.info["sensor"] = StrVal("A")

\* the keys a call asks the normalizer for: those of its "%" bands
PercentBand(p) == DictGet(p.info, "units") = StrVal("%")

RequestedKeys ==
    IF res.op = "SunCorrectedRGB"
    THEN {KeyOf(before.list[i]) : i \in {j \in 1..Len(before.list) : PercentBand(before.list[j])}}
    ELSE {KeyOf(before.list[i]) : i \in 1..Len(before.list)}

NormalizerReturned ==
    /\ res.op \in {"SunCorrectedRGB", "SunZenithNormalize"}
    /\ res.status \notin {"none", "KeyError"}

\* C4: over any series of normalizer calls, through any instances, cos_zen runs
\* exactly once per distinct key: the count of a key is 1 when it is cached and
\* 0 otherwise, a call adds exactly the keys it asks for that were not cached,
\* and no step removes or replaces an entry or recomputes a cached key.
C4_OnceComputedPerKey ==
    /\ [](\A k \in Keys : ncompute[k] = IF k \in DOMAIN coszen THEN 1 ELSE 0)
    /\ [](NormalizerReturned => DOMAIN coszen = (DOMAIN before.cache) \cup RequestedKeys)
    /\ [][\A k \in DOMAIN coszen :
            /\ k \in DOMAIN coszen'
            /\ coszen'[k] = coszen[k]
            /\ ncompute'[k] = ncompute[k]]_vars

C4_OneHitOneMiss ==
    /\ res.op = "SunCorrectedRGB"
    /\ res.status = "ok"
    /\ PercentBand(before.list[1])
    /\ PercentBand(before.list[2])
    /\ KeyOf(before.list[1]) \in DOMAIN before.cache
    /\ KeyOf(before.list[2]) \notin DOMAIN before.cache
    /\ KeyOf(before.list[2]).a # KeyOf(before.list[1]).a
    /\ ncompute[KeyOf(before.list[1])] = 1
    /\ ncompute[KeyOf(before.list[2])] = 1

\* C6: SunCorrectedRGB stacks at position i the band divided by the cosine grid
\* of its key when the band's units are "%", and the band itself otherwise; the
\* cache gains the keys of the "%" bands and no others.
C6_NormalizedIffPercent ==
    (res.op = "SunCorrectedRGB" /\ res.status = "ok") =>
        /\ \A i \in 1..3 :
              LET b == before.list[i]
              IN IF PercentBand(b)
                 THEN /\ res.data[i] = PxDiv(b.data, CosGrid(KeyOf(b)))
                      /\ res.data[i] = projectables[i].data
                 ELSE /\ res.data[i] = b.data
                      /\ projectables[i] = b
        /\ DOMAIN coszen = (DOMAIN before.cache) \cup RequestedKeys

C6_OnePercentTwoOthers ==
    /\ res.op = "SunCorrectedRGB"
    /\ res.status = "ok"
    /\ PercentBand(before.list[1])
    /\ before.list[1].data = Px(70)
    /\ res.data[1] = Px(140)
    /\ DictGet(before.list[2].info, "units") = StrVal("K")
    /\ HasKey(before.list[2])
    /\ "units" \notin DOMAIN before.list[3].info
    /\ HasKey(before.list[3])
    /\ before.cache = EmptyCache
    /\ Cardinality(DOMAIN coszen) = 1

\* C10: after a call of SunCorrectedRGB, successful or failed, the caller's
\* list holds the same bands at the same positions as before the call.
C10_CallerListUntouched ==
    res.op = "SunCorrectedRGB" => projectables = before.list

Called(t) == thr[t].pc # "idle"

\* C9: in every interleaving each finished call has returned its band divided
\* by the cosine grid of its key, every cache entry holds that grid, when all
\* calls have finished the cache holds exactly the keys asked for, and the only
\* deviation is the number of computations: at least one, at most one per call.
C9_RaceBenign ==
    /\ \A t \in Threads : thr[t].pc = "done" =>
          /\ thr[t].err = ""
          /\ thr[t].value = ProjDiv(thr[t].band, CosGrid(KeyOf(thr[t].band)))
          /\ ncompute[KeyOf(thr[t].band)] >= 1
    /\ \A k \in DOMAIN coszen : coszen[k] = CosGrid(k)
    /\ (\A t \in Threads : thr[t].pc = "done") =>
          DOMAIN coszen = {KeyOf(thr[t].band) : t \in Threads}
    /\ \A k \in Keys :
          ncompute[k] <= Cardinality({t \in Threads : Called(t) /\ KeyOf(thr[t].band) = k})

C9_BothComputed ==
    /\ \A t \in Threads : thr[t].pc = "done"
    /\ \E k \in Keys :
          /\ ncompute[k] = 2
          /\ \A t \in Threads : KeyOf(thr[t].band) = k
          /\ DOMAIN coszen = {k}

===========================================================================
